---------------------------- MODULE Spec2Model ----------------------------
(***************************************************************************)
(* A model of package suntime (src/suntime.go): the Julian-day             *)
(* conversions, the solar event calculator and the DMS coordinate          *)
(* converter.                                                              *)
(*                                                                         *)
(* The package is a set of functions over float64 and time.Time.  The      *)
(* model computes them in fixed point:                                     *)
(*   - a time.Time is a count of ticks (half seconds) since                *)
(*     2000-01-01T00:00:00Z;                                               *)
(*   - a Julian day is a count of ticks since J2000.0 (JD 2451545.0);      *)
(*   - an angle is a count of centidegrees, a sine or cosine is scaled by  *)
(*     Scale, and a float64 NaN is the value NaN;                          *)
(*   - a decimal degree is a count of 1e-7 degrees, a DMS seconds field a  *)
(*     count of 1e-4 seconds;                                              *)
(*   - a string is a sequence of one-character strings.                    *)
(* A call is one step: Init draws the input, the action of the operation   *)
(* called computes what it returns and what it prints.                     *)
(***************************************************************************)
EXTENDS Integers, Sequences, FiniteSets, TLC

VARIABLES pc, arg, op, ret, stdout

vars == <<pc, arg, op, ret, stdout>>

---------------------------------------------------------------------------
(* Units of the fixed-point representation. *)

TicksPerSecond == 1 + 1
SecondsPerDay == 24 * 3600
TicksPerDay == TicksPerSecond * SecondsPerDay
HalfDay == TicksPerDay \div 2

\* const J2000 = 2451545.0, the Julian day of 2000-01-01T12:00:00Z.
J2000 == 2451545

\* The days from 1970-01-01 to 2000-01-01, the epoch of the model's ticks.
DaysTo2000 == 30 * 365 + 7

\* The float64 Julian day days + frac/TicksPerDay, as ticks since J2000.
JD(days, fracTicks) == (days - J2000) * TicksPerDay + fracTicks

---------------------------------------------------------------------------
(* package time: the civil calendar of a time.Time in UTC. *)

\* time.Date(y, m, d, 0, 0, 0, 0, time.UTC); d = 0 is the last day of the
\* month before, as time.Date normalises it.
Date(y, m, d) ==
  LET y1 == IF m <= 2 THEN y - 1 ELSE y
      era == y1 \div 400
      yoe == y1 - era * 400
      mp == IF m > 2 THEN m - 3 ELSE m + 9
      doy == (153 * mp + 2) \div 5 + d - 1
      doe == yoe * 365 + yoe \div 4 - yoe \div 100 + doy
      unixDays == era * 146097 + doe - 719468
  IN  (unixDays - DaysTo2000) * TicksPerDay

\* t.Year(), t.Month(), t.Day() of a time in UTC.
CivilDate(t) ==
  LET z == t \div TicksPerDay + DaysTo2000 + 719468
      era == z \div 146097
      doe == z - era * 146097
      yoe == (doe - doe \div 1460 + doe \div 36524 - doe \div 146096) \div 365
      doy == doe - (365 * yoe + yoe \div 4 - yoe \div 100)
      mp == (5 * doy + 2) \div 153
      d == doy - (153 * mp + 2) \div 5 + 1
      m == IF mp < 10 THEN mp + 3 ELSE mp - 9
      y == yoe + era * 400 + (IF m <= 2 THEN 1 ELSE 0)
  IN  [Year |-> y, Month |-> m, Day |-> d]

\* t.Round(time.Second): to the nearest second, a halfway value rounds up.
RoundSecond(t) == ((t + TicksPerSecond \div 2) \div TicksPerSecond) * TicksPerSecond

---------------------------------------------------------------------------
(* package julian (github.com/soniakeys/meeus/v3), as suntime.go calls it. *)

FloorDiv(a, b) == a \div b

\* julian.CalendarGregorianToJD(y, m, d) for a whole day d (Meeus 7.1).
CalendarGregorianToJD(y, m, d) ==
  LET y1 == IF m \in {1, 2} THEN y - 1 ELSE y
      m1 == IF m \in {1, 2} THEN m + 12 ELSE m
      a == FloorDiv(y1, 100)
      b == 2 - a + FloorDiv(a, 4)
      whole == FloorDiv(36525 * (y1 + 4716), 100) + FloorDiv(306 * (m1 + 1), 10) + b + d
  IN  \* ... + d - 1524.5
      JD(whole - 1525, HalfDay)

\* julian.JDToCalendar(jd): the year, the month, and the day with its
\* fraction (Day whole days and Frac ticks).
JDToCalendar(jd) ==
  LET shifted == jd + HalfDay                       \* math.Modf(jd + .5)
      z == J2000 + shifted \div TicksPerDay
      f == shifted % TicksPerDay
      alpha == FloorDiv(z * 100 - 186721625, 3652425)
      a == IF z >= 2299151 THEN z + 1 + alpha - FloorDiv(alpha, 4) ELSE z
      b == a + 1524
      c == FloorDiv(b * 100 - 12210, 36525)
      d == FloorDiv(36525 * c, 100)
      e == FloorDiv((b - d) * 10000, 306001)
      day == (b - d) - FloorDiv(306001 * e, 10000)
      month == IF e \in {14, 15} THEN e - 13 ELSE e - 1
      year == IF month \in {1, 2} THEN c - 4715 ELSE c - 4716
  IN  [Year |-> year, Month |-> month, Day |-> day, Frac |-> f]

\* julian.JDToTime(jd): time.Date(y, m, 0, ...).Add(d * 24h).
JDToTime(jd) ==
  LET c == JDToCalendar(jd)
  IN  Date(c.Year, c.Month, 0) + c.Day * TicksPerDay + c.Frac

---------------------------------------------------------------------------
(* Julian-day conversions of suntime.go. *)

\* ToJulianDay: the Julian day of the calendar date of t in UTC.
ToJulianDay(t) ==
  LET date == CivilDate(t)
  IN  CalendarGregorianToJD(date.Year, date.Month, date.Day)

FromJulianDay(jd) == JDToTime(jd)

\* JulianToUTC without the shift of half a day.
JulianToUTCNoShift(julian) == ToJulianDay(FromJulianDay(julian))

JulianToUTC(julian) ==
  LET julianMidnight == julian + HalfDay
      utcTime == FromJulianDay(julianMidnight)
  IN  ToJulianDay(utcTime)

---------------------------------------------------------------------------
(* package math, in fixed point. *)

Scale == 10 * 1000

\* A float64 that is a number (v, in the unit of its place) or NaN.
Num(v) == [nan |-> FALSE, v |-> v]
NaN == [nan |-> TRUE, v |-> 0]

\* Scale * sin(i degrees) for i = 0 .. 90, at index i + 1.
SinTable ==
  << 0, 175, 349, 523, 698, 872, 1045, 1219, 1392, 1564,
     1736, 1908, 2079, 2250, 2419, 2588, 2756, 2924, 3090, 3256,
     3420, 3584, 3746, 3907, 4067, 4226, 4384, 4540, 4695, 4848,
     5000, 5150, 5299, 5446, 5592, 5736, 5878, 6018, 6157, 6293,
     6428, 6561, 6691, 6820, 6947, 7071, 7193, 7314, 7431, 7547,
     7660, 7771, 7880, 7986, 8090, 8192, 8290, 8387, 8480, 8572,
     8660, 8746, 8829, 8910, 8988, 9063, 9135, 9205, 9272, 9336,
     9397, 9455, 9511, 9563, 9613, 9659, 9703, 9744, 9781, 9816,
     9848, 9877, 9903, 9925, 9945, 9962, 9976, 9986, 9994, 9998,
     10000 >>

\* The sine of a centidegrees, 0 <= a <= 9000: the table, interpolated.
SinQuadrant(a) ==
  LET i == a \div 100
      r == a % 100
  IN  IF r = 0 THEN SinTable[i + 1]
      ELSE SinTable[i + 1] + ((SinTable[i + 2] - SinTable[i + 1]) * r) \div 100

\* math.Sin and math.Cos of an angle in centidegrees, scaled by Scale.
Sin(x) ==
  LET r == x % 36000
  IN  IF r <= 9000 THEN SinQuadrant(r)
      ELSE IF r <= 18000 THEN SinQuadrant(18000 - r)
      ELSE IF r <= 27000 THEN -SinQuadrant(r - 18000)
      ELSE -SinQuadrant(36000 - r)

Cos(x) == Sin(x + 9000)

\* math.Asin of v / Scale, in centidegrees; NaN outside [-1, 1].
AsinPositive(v) ==
  IF v = Scale THEN 9000
  ELSE LET i == CHOOSE k \in 0..89 : SinTable[k + 1] <= v /\ v < SinTable[k + 2]
       IN  i * 100 + ((v - SinTable[i + 1]) * 100) \div (SinTable[i + 2] - SinTable[i + 1])

Asin(v) ==
  IF v > Scale \/ v < -Scale THEN NaN
  ELSE IF v >= 0 THEN Num(AsinPositive(v)) ELSE Num(-AsinPositive(-v))

\* math.Acos of v / Scale, in centidegrees in [0, 18000]; NaN outside [-1, 1].
Acos(v) ==
  IF v > Scale \/ v < -Scale THEN NaN ELSE Num(9000 - Asin(v).v)

\* The digits of num / den after the point, for 0 <= num <= den: long division,
\* which keeps every intermediate product within the integers' range.
RECURSIVE LongDiv(_, _, _)
LongDiv(num, den, digits) ==
  IF digits = 0 THEN 0
  ELSE LET q == (num * 10) \div den
       IN  q * (IF digits = 4 THEN 1000 ELSE IF digits = 3 THEN 100
                ELSE IF digits = 2 THEN 10 ELSE 1)
           + LongDiv(num * 10 - q * den, den, digits - 1)

\* The float64 quotient num / den scaled by Scale; NaN for 0/0, and a value
\* beyond Scale (so outside [-1, 1]) where |num| > |den|, +-Inf included.
Quotient(num, den) ==
  LET n == IF num < 0 THEN -num ELSE num
      d == IF den < 0 THEN -den ELSE den
      sign == IF (num < 0) = (den < 0) THEN 1 ELSE -1
  IN  IF d = 0 THEN (IF n = 0 THEN NaN ELSE Num(sign * 2 * Scale))
      ELSE IF n > d THEN Num(sign * 2 * Scale)
      ELSE IF n = d THEN Num(sign * Scale)
      ELSE Num(sign * LongDiv(n, d, 4))

---------------------------------------------------------------------------
(* The solar event calculator: calculateTime and its eight wrappers. *)

\* x / 360 of a day in ticks, for x in centidegrees: longitude / 360.0, and
\* h / (2 * math.Pi) for an hour angle h.
TurnsToDays(x) == (x * (TicksPerDay \div 7200)) \div 5

\* x * RadiansToDegrees in centidegrees, for x radians scaled by Scale
\* (180 / pi = 57.296).
RadiansToDegrees(x) == (x * 57296) \div (10 * Scale)

\* Jstar := n - longitude/360.0 with n := julianDay - J2000: in ticks since
\* J2000, which is what a Julian day of the model counts.
MeanSolarNoon(julianDay, longitude) == julianDay - TurnsToDays(longitude)

\* M := (357.5291 + 0.98560028*Jstar) * DegreesToRadians, in centidegrees:
\* 98.560 centidegrees a day, over the whole days and the rest of Jstar.
MeanAnomaly(Jstar) ==
  LET q == Jstar \div TicksPerDay
      r == Jstar % TicksPerDay
  IN  35753 + (q * 98560) \div 1000 + (r * 9856) \div (100 * TicksPerDay)

\* C := 1.9148*sin(M) + 0.0200*sin(2M) + 0.0003*sin(3M), scaled by Scale.
EquationOfCenter(M) ==
  (19148 * Sin(M) + 200 * Sin(2 * M) + 3 * Sin(3 * M)) \div Scale

\* lambda := (M + C + 102.9372*DegreesToRadians + math.Pi) * RadiansToDegrees,
\* in centidegrees: C enters the sum of radians as it is.
EclipticLongitude(M) ==
  M + RadiansToDegrees(EquationOfCenter(M)) + 10294 + 18000

\* Jtransit := J2000 + Jstar + 0.0053*sin(M) - 0.0069*sin(2*lambda), in ticks.
SolarTransit(julianDay, longitude) ==
  LET Jstar == MeanSolarNoon(julianDay, longitude)
      M == MeanAnomaly(Jstar)
      lambda == EclipticLongitude(M)
  IN  Jstar + ((53 * Sin(M) - 69 * Sin(2 * lambda)) * (TicksPerDay \div 200))
                \div (50 * Scale)

\* delta := asin(sin(lambda) * sin(23.44 degrees)), in centidegrees.
Declination(julianDay, longitude) ==
  LET M == MeanAnomaly(MeanSolarNoon(julianDay, longitude))
  IN  Asin((Sin(EclipticLongitude(M)) * Sin(2344)) \div Scale).v

\* The argument of math.Acos: (cos(angle) - sin(lat)*sin(decl)) /
\* (cos(lat) * cos(decl)).
HourAngleArgument(latitude, delta, angle) ==
  Quotient(Cos(angle) * Scale - Sin(latitude) * Sin(delta),
           Cos(latitude) * Cos(delta))

\* The hour angle never negated.
SignedHourAngleNeverNegated(h, isSunrise) == h

\* if isSunrise { h = -h }
SignedHourAngle(h, isSunrise) == IF isSunrise THEN -h ELSE h

\* h := math.Acos(...), negated for a sunrise; NaN where the argument is.
HourAngle(julianDay, longitude, latitude, angle, isSunrise) ==
  LET x == HourAngleArgument(latitude, Declination(julianDay, longitude), angle)
      h == IF x.nan THEN NaN ELSE Acos(x.v)
  IN  IF h.nan THEN NaN ELSE Num(SignedHourAngle(h.v, isSunrise))

\* calculateTime: FromJulianDay(Jtransit + h/(2*math.Pi)).Round(time.Second);
\* NaN where Jset is NaN, of which FromJulianDay makes some time (see Returned).
calculateTime(julianDay, longitude, latitude, angle, isSunrise) ==
  LET h == HourAngle(julianDay, longitude, latitude, angle, isSunrise)
      Jset == SolarTransit(julianDay, longitude) + TurnsToDays(h.v)
  IN  IF h.nan THEN NaN ELSE Num(RoundSecond(FromJulianDay(Jset)))

\* The zenith angles of the wrappers, in centidegrees.
SunriseAngle == 9083 + 0
CivilAngle == 96 * 100
NauticalAngle == 102 * 100
AstronomicalAngle == 108 * 100

Sunrise(julianDay, longitude, latitude) ==
  calculateTime(JulianToUTC(julianDay), longitude, latitude, SunriseAngle, TRUE)

Sunset(julianDay, longitude, latitude) ==
  calculateTime(JulianToUTC(julianDay), longitude, latitude, SunriseAngle, FALSE)

CivilTwilightSunrise(julianDay, longitude, latitude) ==
  calculateTime(JulianToUTC(julianDay), longitude, latitude, CivilAngle, TRUE)

CivilTwilightSunset(julianDay, longitude, latitude) ==
  calculateTime(JulianToUTC(julianDay), longitude, latitude, CivilAngle, FALSE)

NauticalTwilightSunrise(julianDay, longitude, latitude) ==
  calculateTime(JulianToUTC(julianDay), longitude, latitude, NauticalAngle, TRUE)

NauticalTwilightSunset(julianDay, longitude, latitude) ==
  calculateTime(JulianToUTC(julianDay), longitude, latitude, NauticalAngle, FALSE)

AstronomicalTwilightSunrise(julianDay, longitude, latitude) ==
  calculateTime(JulianToUTC(julianDay), longitude, latitude, AstronomicalAngle, TRUE)

AstronomicalTwilightSunset(julianDay, longitude, latitude) ==
  calculateTime(JulianToUTC(julianDay), longitude, latitude, AstronomicalAngle, FALSE)

---------------------------------------------------------------------------
(* The coordinate notation converter. *)

\* A decimal degree counts DegreeUnit-ths of a degree, a Seconds field
\* SecondUnit-ths of a second, a fraction of a minute MinuteUnit-ths of it.
DegreeUnit == 10 * 1000 * 1000
SecondUnit == 10 * 1000
MinuteUnit == DegreeUnit

\* math.Round(n / d) for d > 0: to the nearest integer, halves away from zero.
Round(n, d) ==
  IF n >= 0 THEN (2 * n + d) \div (2 * d) ELSE -((2 * (-n) + d) \div (2 * d))

\* DMS{Degrees, Minutes, Seconds}, and the zero value DMS{}.
DMS(degrees, minutes, seconds) ==
  [Degrees |-> degrees, Minutes |-> minutes, Seconds |-> seconds]

ZeroDMS == DMS(0, 0, 0)

\* An error that is nil.
nil == <<>>

Digits == {"0", "1", "2", "3", "4", "5", "6", "7", "8", "9"}

\* \s of the regular expression.
Whitespace == {" ", "\t", "\n", "\f", "\r"}

\* [NSEW] of the regular expression.
Hemispheres == {"N", "S", "E", "W"}

\* The number of characters of s from position p on that are in class.
RECURSIVE RunLength(_, _, _)
RunLength(s, p, class) ==
  IF p <= Len(s) /\ s[p] \in class THEN 1 + RunLength(s, p + 1, class) ELSE 0

At(s, p, c) == p <= Len(s) /\ s[p] = c

\* re.FindStringSubmatch(input) for
\*   ^(\d{1,2})°\s+(\d{1,2})'\s+(\d{1,2}(?:\.\d+)?)"\s+([NSEW])$
\* the four groups of the match, or <<>> (nil) without one.
FindStringSubmatch(input) ==
  LET n1 == RunLength(input, 1, Digits)
      p1 == 1 + n1
      w1 == RunLength(input, p1 + 1, Whitespace)
      p2 == p1 + 1 + w1
      n2 == RunLength(input, p2, Digits)
      p3 == p2 + n2
      w2 == RunLength(input, p3 + 1, Whitespace)
      p4 == p3 + 1 + w2
      n3 == RunLength(input, p4, Digits)
      dot == At(input, p4 + n3, ".")
      n4 == IF dot THEN RunLength(input, p4 + n3 + 1, Digits) ELSE 0
      p5 == p4 + n3 + (IF dot /\ n4 >= 1 THEN 1 + n4 ELSE 0)
      w3 == RunLength(input, p5 + 1, Whitespace)
      p6 == p5 + 1 + w3
  IN  IF /\ n1 \in 1..2 /\ At(input, p1, "°") /\ w1 >= 1
         /\ n2 \in 1..2 /\ At(input, p3, "'") /\ w2 >= 1
         /\ n3 \in 1..2 /\ At(input, p5, "\"") /\ w3 >= 1
         /\ p6 = Len(input) /\ input[p6] \in Hemispheres
      THEN << SubSeq(input, 1, n1), SubSeq(input, p2, p3 - 1),
              SubSeq(input, p4, p5 - 1), SubSeq(input, p6, p6) >>
      ELSE <<>>

DigitValue(c) ==
  CASE c = "0" -> 0 [] c = "1" -> 1 [] c = "2" -> 2 [] c = "3" -> 3 [] c = "4" -> 4
    [] c = "5" -> 5 [] c = "6" -> 6 [] c = "7" -> 7 [] c = "8" -> 8 [] c = "9" -> 9

\* strconv.Atoi of a string of digits.
RECURSIVE Atoi(_)
Atoi(s) ==
  IF s = <<>> THEN 0 ELSE 10 * Atoi(SubSeq(s, 1, Len(s) - 1)) + DigitValue(s[Len(s)])

\* strconv.ParseFloat of digits with or without a fraction, in SecondUnit-ths:
\* the fraction's first four digits count.
ParseFloat(s) ==
  LET n == RunLength(s, 1, Digits)
      frac == IF n < Len(s) THEN SubSeq(s, n + 2, Len(s)) ELSE <<>>
      four == SubSeq(frac \o <<"0", "0", "0", "0">>, 1, 4)
  IN  Atoi(SubSeq(s, 1, n)) * SecondUnit + Atoi(four)

\* strings.ToUpper of one letter.
ToUpper(c) ==
  CASE c = "n" -> "N" [] c = "s" -> "S" [] c = "e" -> "E" [] c = "w" -> "W"
    [] OTHER -> c

\* fmt.Errorf("invalid DMS format: %s", input)
Errorf(input) ==
  << "i", "n", "v", "a", "l", "i", "d", " ", "D", "M", "S", " ",
     "f", "o", "r", "m", "a", "t", ":", " " >> \o input

\* ParseDMS returning, without a match, the fields it could read.
ParseDMSPartial(text) ==
  LET matches == FindStringSubmatch(text)
  IN  IF matches = <<>>
      THEN [dms |-> DMS(Atoi(SubSeq(text, 1, RunLength(text, 1, Digits))), 0, 0),
            direction |-> "", err |-> Errorf(text)]
      ELSE [dms |-> DMS(Atoi(matches[1]), Atoi(matches[2]), ParseFloat(matches[3])),
            direction |-> ToUpper(matches[4][1]),
            err |-> nil]

\* ParseDMS: (DMS, direction, error).
ParseDMS(text) ==
  LET matches == FindStringSubmatch(text)
  IN  IF matches = <<>>
      THEN [dms |-> ZeroDMS, direction |-> "", err |-> Errorf(text)]
      ELSE [dms |-> DMS(Atoi(matches[1]), Atoi(matches[2]), ParseFloat(matches[3])),
            direction |-> ToUpper(matches[4][1]),
            err |-> nil]

\* roundToPlaces with math.Floor for math.Round.
roundToPlacesFloor(value, unitsPerPlace) == value \div unitsPerPlace

\* roundToPlaces(value, places), for a value counted in unit-ths: the count of
\* 10^-places-ths, given as the size of one of them in unit-ths.
roundToPlaces(value, unitsPerPlace) == Round(value, unitsPerPlace)

\* DmsToDecimal's return value, in DegreeUnit-ths; a direction that is none of
\* N, S, E, W leaves the sign as it is.
DmsToDecimal(dms, direction) ==
  LET \* Minutes/60 + Seconds/3600 = (Minutes*60 + Seconds)/3600 degrees; one
      \* SecondUnit-th of a second is 5/18 of a DegreeUnit-th of a degree.
      seconds == dms.Minutes * 60 * SecondUnit + dms.Seconds
      magnitude == dms.Degrees * DegreeUnit + roundToPlaces(seconds * 5, 18)
  IN  IF direction \in {"S", "W"} THEN -magnitude ELSE magnitude

\* What DmsToDecimal prints: fmt.Println in the default case of its switch.
DmsToDecimalOutput(direction) ==
  IF direction \in {"S", "W", "N", "E"} THEN <<>>
  ELSE <<"Invalid direction. Use N, S, E, or W.">>

\* DecimalToDMS: (DMS, direction).
DecimalToDMS(decimal, isLatitude) ==
  LET direction == IF isLatitude THEN (IF decimal < 0 THEN "S" ELSE "N")
                   ELSE (IF decimal < 0 THEN "W" ELSE "E")
      abs == IF decimal < 0 THEN -decimal ELSE decimal
      degrees == abs \div DegreeUnit
      minutes == ((abs - degrees * DegreeUnit) * 60) \div DegreeUnit
      rest == (abs - degrees * DegreeUnit) * 60 - minutes * MinuteUnit
      seconds == roundToPlaces(rest, MinuteUnit \div SecondUnit) * 60
  IN  [dms |-> DMS(degrees, minutes, seconds), direction |-> direction]

---------------------------------------------------------------------------
(* The inputs of a call. *)

MaxDayIndex == 30
DayStride == 173
MaxSolarDay == 3
MaxLatIndex == 9
MaxLngIndex == 1
MaxFracIndex == 60
FracStride == 166666
MaxDeviations == 1

\* Days since 2000-01-01, before and after it.
Days == {DayStride * k : k \in -MaxDayIndex..MaxDayIndex}

\* Times of day with whole seconds, in ticks: midnight, the first and the
\* last second of the day, noon and the seconds around it.
TimesOfDay ==
  {0, TicksPerSecond, HalfDay - TicksPerSecond, HalfDay, HalfDay + TicksPerSecond,
   TicksPerDay - TicksPerSecond}

TimeInputs ==
  {[kind |-> "time", t |-> d * TicksPerDay + s] : d \in Days, s \in TimesOfDay}

\* Julian days: a whole day (noon), midnight, and the ticks next to them.
JulianFractions == {0, 1, HalfDay - 1, HalfDay, HalfDay + 1, TicksPerDay - 1}

JulianInputs ==
  {[kind |-> "julian", jd |-> d * TicksPerDay + f] : d \in Days, f \in JulianFractions}

\* The days of the solar inputs: from 2024-12-21, a quarter of a year apart.
SolarDays == {JD(2460665, 0) + k * 91 * TicksPerDay : k \in 0..MaxSolarDay}

Latitudes == {(k * 9000) \div MaxLatIndex : k \in -MaxLatIndex..MaxLatIndex}

Longitudes == {(k * 18000) \div MaxLngIndex : k \in -MaxLngIndex..MaxLngIndex}

SolarInputs ==
  {[kind |-> "solar", julianDay |-> d + f, longitude |-> lng, latitude |-> lat] :
     d \in SolarDays, f \in {0, HalfDay, TicksPerDay - 1},
     lng \in Longitudes, lat \in Latitudes}

\* The parts of a DMS text: each set holds the forms of the pattern
\* D[D]° M[M]' S[.f]" H first, then the deviations from it.
DegreeTexts == {<<"7">>, <<"3", "8">>, <<"1", "2", "0">>}
MinuteTexts == {<<"5", "1">>, <<"7", "5">>}
SecondTexts == {<<"3", "1">>, <<"3", "1", ".", "4", "4">>, <<"8", "0">>, <<"3", "1", ".">>}
GapTexts == {<<" ">>, <<" ", "\t">>, <<>>}
HemisphereTexts == {<<"N">>, <<"S">>, <<"E">>, <<"W">>, <<"n">>, <<"w">>, <<"X">>, <<>>}

\* How many of the parts deviate from the pattern.
Deviations(p) ==
    (IF Len(p.deg) > 2 THEN 1 ELSE 0)
  + (IF p.degSym = <<>> THEN 1 ELSE 0)
  + (IF p.gap = <<>> THEN 1 ELSE 0)
  + (IF p.minSym = <<>> THEN 1 ELSE 0)
  + (IF p.sec[Len(p.sec)] = "." THEN 1 ELSE 0)
  + (IF p.secSym = <<>> THEN 1 ELSE 0)
  + (IF p.hemi \in {<<"X">>, <<>>} THEN 1 ELSE 0)
  + (IF p.order = "mds" THEN 1 ELSE 0)

TextParts ==
  {p \in [deg : DegreeTexts, degSym : {<<"°">>, <<>>}, gap : GapTexts,
          min : MinuteTexts, minSym : {<<"'">>, <<>>},
          sec : SecondTexts, secSym : {<<"\"">>, <<>>},
          hemi : HemisphereTexts, order : {"dms", "mds"}] :
     Deviations(p) <= MaxDeviations}

\* The text of the parts, in the order degrees, minutes, seconds, hemisphere,
\* or with the degrees and the minutes swapped.
Text(p) ==
  LET d == p.deg \o p.degSym
      m == p.min \o p.minSym
  IN  (IF p.order = "dms" THEN d \o p.gap \o m ELSE m \o p.gap \o d)
        \o <<" ">> \o p.sec \o p.secSym \o <<" ">> \o p.hemi

TextInputs == {[kind |-> "text", text |-> Text(p), parts |-> p] : p \in TextParts}

DMSInputs ==
  {[kind |-> "dms", dms |-> DMS(d, m, s), direction |-> dir] :
     d \in {0, 38, 90}, m \in {0, 51, 59},
     s \in {0, 314400, 60 * SecondUnit - 1},
     dir \in {"N", "S", "E", "W", "n", "X", ""}}

\* Decimal degrees in the valid range: up to 90 for a latitude, 180 for a
\* longitude, of either sign.
Fractions == {(k * FracStride) % DegreeUnit : k \in 0..MaxFracIndex}

DecimalInputs ==
  {i \in {[kind |-> "decimal", decimal |-> sign * (d * DegreeUnit + f),
           isLatitude |-> lat] :
             sign \in {-1, 1}, lat \in BOOLEAN,
             d \in {0, 38, 89, 90, 179, 180}, f \in Fractions} :
     /\ i.decimal <= (IF i.isLatitude THEN 90 ELSE 180) * DegreeUnit
     /\ -i.decimal <= (IF i.isLatitude THEN 90 ELSE 180) * DegreeUnit}

Inputs == TimeInputs \cup JulianInputs \cup SolarInputs \cup TextInputs
            \cup DMSInputs \cup DecimalInputs

---------------------------------------------------------------------------
(* The calls. *)

\* What a call returns is a record of its kind: a "time" (time.Time), a
\* "float64", or the results of ParseDMS and DecimalToDMS.  Only ParseDMS has
\* an error result (err); no operation returns a value of kind "error".

\* What time a solar event operation returns: the time computed, or, where
\* Jset is NaN, the time julian.JDToTime makes of NaN, which depends on how the
\* platform converts NaN to an integer: some time of whole seconds.
NaNTimes == {-TicksPerDay, 0, TicksPerDay}

Returned(r) ==
  IF r.nan THEN {[kind |-> "time", time |-> t] : t \in NaNTimes}
  ELSE {[kind |-> "time", time |-> r.v]}

Init ==
  /\ pc = "ready"
  /\ arg \in Inputs
  /\ op = "none"
  /\ ret = [kind |-> "none"]
  /\ stdout = <<>>

CallToJulianDay ==
  /\ pc = "ready" /\ arg.kind = "time"
  /\ pc' = "done" /\ op' = "ToJulianDay"
  /\ ret' = [kind |-> "float64", value |-> ToJulianDay(arg.t)]
  /\ UNCHANGED <<arg, stdout>>

CallFromJulianDay ==
  /\ pc = "ready" /\ arg.kind = "julian"
  /\ pc' = "done" /\ op' = "FromJulianDay"
  /\ ret' = [kind |-> "time", time |-> FromJulianDay(arg.jd)]
  /\ UNCHANGED <<arg, stdout>>

CallJulianToUTC ==
  /\ pc = "ready" /\ arg.kind = "julian"
  /\ pc' = "done" /\ op' = "JulianToUTC"
  /\ ret' = [kind |-> "float64", value |-> JulianToUTC(arg.jd)]
  /\ UNCHANGED <<arg, stdout>>

CallSunrise ==
  /\ pc = "ready" /\ arg.kind = "solar"
  /\ pc' = "done" /\ op' = "Sunrise"
  /\ ret' \in Returned(Sunrise(arg.julianDay, arg.longitude, arg.latitude))
  /\ UNCHANGED <<arg, stdout>>

CallSunset ==
  /\ pc = "ready" /\ arg.kind = "solar"
  /\ pc' = "done" /\ op' = "Sunset"
  /\ ret' \in Returned(Sunset(arg.julianDay, arg.longitude, arg.latitude))
  /\ UNCHANGED <<arg, stdout>>

CallCivilTwilightSunrise ==
  /\ pc = "ready" /\ arg.kind = "solar"
  /\ pc' = "done" /\ op' = "CivilTwilightSunrise"
  /\ ret' \in Returned(CivilTwilightSunrise(arg.julianDay, arg.longitude, arg.latitude))
  /\ UNCHANGED <<arg, stdout>>

CallCivilTwilightSunset ==
  /\ pc = "ready" /\ arg.kind = "solar"
  /\ pc' = "done" /\ op' = "CivilTwilightSunset"
  /\ ret' \in Returned(CivilTwilightSunset(arg.julianDay, arg.longitude, arg.latitude))
  /\ UNCHANGED <<arg, stdout>>

CallNauticalTwilightSunrise ==
  /\ pc = "ready" /\ arg.kind = "solar"
  /\ pc' = "done" /\ op' = "NauticalTwilightSunrise"
  /\ ret' \in Returned(NauticalTwilightSunrise(arg.julianDay, arg.longitude, arg.latitude))
  /\ UNCHANGED <<arg, stdout>>

CallNauticalTwilightSunset ==
  /\ pc = "ready" /\ arg.kind = "solar"
  /\ pc' = "done" /\ op' = "NauticalTwilightSunset"
  /\ ret' \in Returned(NauticalTwilightSunset(arg.julianDay, arg.longitude, arg.latitude))
  /\ UNCHANGED <<arg, stdout>>

CallAstronomicalTwilightSunrise ==
  /\ pc = "ready" /\ arg.kind = "solar"
  /\ pc' = "done" /\ op' = "AstronomicalTwilightSunrise"
  /\ ret' \in Returned(AstronomicalTwilightSunrise(arg.julianDay, arg.longitude, arg.latitude))
  /\ UNCHANGED <<arg, stdout>>

CallAstronomicalTwilightSunset ==
  /\ pc = "ready" /\ arg.kind = "solar"
  /\ pc' = "done" /\ op' = "AstronomicalTwilightSunset"
  /\ ret' \in Returned(AstronomicalTwilightSunset(arg.julianDay, arg.longitude, arg.latitude))
  /\ UNCHANGED <<arg, stdout>>

CallParseDMS ==
  /\ pc = "ready" /\ arg.kind = "text"
  /\ pc' = "done" /\ op' = "ParseDMS"
  /\ ret' = ParseDMS(arg.text)
  /\ UNCHANGED <<arg, stdout>>

CallDmsToDecimal ==
  /\ pc = "ready" /\ arg.kind = "dms"
  /\ pc' = "done" /\ op' = "DmsToDecimal"
  /\ ret' = [kind |-> "float64", value |-> DmsToDecimal(arg.dms, arg.direction)]
  /\ stdout' = stdout \o DmsToDecimalOutput(arg.direction)
  /\ UNCHANGED arg

CallDecimalToDMS ==
  /\ pc = "ready" /\ arg.kind = "decimal"
  /\ pc' = "done" /\ op' = "DecimalToDMS"
  /\ ret' = DecimalToDMS(arg.decimal, arg.isLatitude)
  /\ UNCHANGED <<arg, stdout>>

Next ==
  \/ CallToJulianDay
  \/ CallFromJulianDay
  \/ CallJulianToUTC
  \/ CallSunrise
  \/ CallSunset
  \/ CallCivilTwilightSunrise
  \/ CallCivilTwilightSunset
  \/ CallNauticalTwilightSunrise
  \/ CallNauticalTwilightSunset
  \/ CallAstronomicalTwilightSunrise
  \/ CallAstronomicalTwilightSunset
  \/ CallParseDMS
  \/ CallDmsToDecimal
  \/ CallDecimalToDMS

Spec == Init /\ [][Next]_vars

---------------------------------------------------------------------------
(* The claims. *)

SolarOps ==
  {"Sunrise", "Sunset", "CivilTwilightSunrise", "CivilTwilightSunset",
   "NauticalTwilightSunrise", "NauticalTwilightSunset",
   "AstronomicalTwilightSunrise", "AstronomicalTwilightSunset"}

\* What the wrapper called name computes.
Event(name, julianDay, longitude, latitude) ==
  CASE name = "Sunrise" -> Sunrise(julianDay, longitude, latitude)
    [] name = "Sunset" -> Sunset(julianDay, longitude, latitude)
    [] name = "CivilTwilightSunrise" -> CivilTwilightSunrise(julianDay, longitude, latitude)
    [] name = "CivilTwilightSunset" -> CivilTwilightSunset(julianDay, longitude, latitude)
    [] name = "NauticalTwilightSunrise" -> NauticalTwilightSunrise(julianDay, longitude, latitude)
    [] name = "NauticalTwilightSunset" -> NauticalTwilightSunset(julianDay, longitude, latitude)
    [] name = "AstronomicalTwilightSunrise" ->
         AstronomicalTwilightSunrise(julianDay, longitude, latitude)
    [] name = "AstronomicalTwilightSunset" ->
         AstronomicalTwilightSunset(julianDay, longitude, latitude)

ZenithAngle(name) ==
  CASE name \in {"Sunrise", "Sunset"} -> SunriseAngle
    [] name \in {"CivilTwilightSunrise", "CivilTwilightSunset"} -> CivilAngle
    [] name \in {"NauticalTwilightSunrise", "NauticalTwilightSunset"} -> NauticalAngle
    [] OTHER -> AstronomicalAngle

Called(name) == pc = "done" /\ op = name

CalledSolar == pc = "done" /\ op \in SolarOps

\* C1: for every UTC time t of whole seconds, at any time of day,
\* FromJulianDay(ToJulianDay(t)) equals t.
C1_JulianRoundTrip ==
  Called("ToJulianDay") => FromJulianDay(ret.value) = arg.t

\* The argument of the arccosine of the call lies outside [-1, 1].
ArgumentOutOfDomain ==
  LET jd == JulianToUTC(arg.julianDay)
      x == HourAngleArgument(arg.latitude, Declination(jd, arg.longitude), ZenithAngle(op))
  IN  x.nan \/ x.v > Scale \/ x.v < -Scale

\* C2: where the argument of the arccosine lies outside [-1, 1], the solar
\* event operation reports an error and returns no time.
C2_UnreachableAngleIsError ==
  (CalledSolar /\ ArgumentOutOfDomain) => ret.kind = "error"

\* The solar transit of the day, as a time of whole seconds.
TransitTime(julianDay, longitude) ==
  RoundSecond(FromJulianDay(SolarTransit(JulianToUTC(julianDay), longitude)))

AllDefined(julianDay, longitude, latitude) ==
  \A name \in SolarOps : ~Event(name, julianDay, longitude, latitude).nan

Ordered(seq) == \A i \in 1..(Len(seq) - 1) : seq[i] <= seq[i + 1]

Tolerance == DegreeUnit \div (1000 * 1000)

Distance(a, b) == IF a >= b THEN a - b ELSE b - a

\* C4: for every decimal degree d of the valid range, DmsToDecimal of what
\* DecimalToDMS(d, isLatitude) returns is within 1e-6 degrees of d.
C4_DecimalRoundTrip ==
  Called("DecimalToDMS") =>
    Distance(DmsToDecimal(ret.dms, ret.direction), arg.decimal) <= Tolerance

\* A negative decimal with seconds, which the round trip does not give back
\* exactly.
C4_Witness ==
  /\ Called("DecimalToDMS")
  /\ arg.decimal < 0 /\ ret.dms.Seconds > 0
  /\ DmsToDecimal(ret.dms, ret.direction) # arg.decimal

\* C5: DmsToDecimal with a direction that is none of N, S, E, W fails; it
\* returns no decimal value.
C5_InvalidDirectionFails ==
  (Called("DmsToDecimal") /\ arg.direction \notin Hemispheres) => ret.kind = "error"

\* s holds sub as a run of consecutive characters.
Contains(s, sub) ==
  \E i \in 0..(Len(s) - Len(sub)) : SubSeq(s, i + 1, i + Len(sub)) = sub

C7_LowercaseHemisphere ==
  (Called("ParseDMS") /\ Deviations(arg.parts) = 0
     /\ arg.parts.hemi \in {<<"n">>, <<"s">>, <<"e">>, <<"w">>}) =>
    /\ ret.err = nil
    /\ ret.direction = ToUpper(arg.parts.hemi[1])

DMSInvariant(dms) ==
  /\ dms.Degrees >= 0
  /\ dms.Minutes >= 0 /\ dms.Minutes <= 59
  /\ dms.Seconds >= 0 /\ dms.Seconds < 60 * SecondUnit

\* C8: every DMS that DecimalToDMS or a successful ParseDMS returns has
\* degrees >= 0, minutes in [0, 59] and seconds in [0, 60).
C8_DMSInvariant ==
  (Called("DecimalToDMS") \/ (Called("ParseDMS") /\ ret.err = nil)) =>
    DMSInvariant(ret.dms)

\* C9: no operation performs I/O, for any input: nothing is ever printed.
C9_NoOutput == stdout = <<>>

\* The Julian days of the noon-to-noon interval of julianDay among the inputs.
SameInterval(julianDay) ==
  {(julianDay \div TicksPerDay) * TicksPerDay + f : f \in JulianFractions}

\* C10: JulianToUTC(j) is the one value k + 0.5 in (j - 0.5, j + 0.5]; so
\* JulianToUTC is idempotent, and a solar event wrapper returns the same for
\* every day of one noon-to-noon interval.
C10_MidnightOfInterval ==
  /\ Called("JulianToUTC") =>
       /\ (ret.value - HalfDay) % TicksPerDay = 0
       /\ arg.jd - HalfDay < ret.value /\ ret.value <= arg.jd + HalfDay
       /\ JulianToUTC(ret.value) = ret.value
  /\ CalledSolar =>
       \A j \in SameInterval(arg.julianDay) :
         Event(op, j, arg.longitude, arg.latitude)
           = Event(op, arg.julianDay, arg.longitude, arg.latitude)

\* The tick after noon: the midnight returned is the one half a day later.
C10_Witness ==
  /\ Called("JulianToUTC")
  /\ arg.jd % TicksPerDay = 1
  /\ ret.value = arg.jd - 1 + HalfDay

===========================================================================
